---- MODULE Spec2Model ----
(***************************************************************************)
(* A model of eteTools: the post-processing of ETE3 evol / CodeML output   *)
(* into LRT, summary, branch and BEB tables.                               *)
(*                                                                         *)
(* Modelled values                                                         *)
(*   - a directory name is a sequence of tokens, the delimiters "~" and    *)
(*     "." being tokens of their own: "M0.1~h" is <<"M0",".","1","~","h">>;*)
(*   - a line of a file is a record: a text line carries its words, a data *)
(*     line its parsed fields;                                             *)
(*   - a pandas DataFrame is [kind |-> "table", cols, rows]; Python's None *)
(*     is [kind |-> "none", ...]; a raised exception is [kind |-> "fault"];*)
(*   - probabilities of the rst files are fixed-point, in thousandths;     *)
(*   - log-likelihoods are integer valued; a p-value is a decimal float    *)
(*     [m, e] standing for m * 10^(-e) with a four digit mantissa.         *)
(***************************************************************************)
EXTENDS Integers, Sequences, FiniteSets, TLC

VARIABLES
    listing,    \* the model sub-directories of the gene directory (scandir order)
    self,       \* the EteResults object built from it: name, models, codeml
    lrt,        \* what the call of getLRT returned
    rst,        \* an rst file handed to a BEB reader, and the model it belongs to
    beb,        \* what the BEB reader returned
    corpus,     \* the gene directories of the input directory (scandir order)
    summaries,  \* the per-gene summary dictionaries collected so far
    branches,   \* the per-gene branch tables collected so far
    merged,     \* what mergeSummaryDicts returned
    run,        \* the state of a run of the eteTools script
    files,      \* the files written to the output directory
    args,       \* the arguments of a call of compareLRT: two LRT files and a threshold
    log         \* the messages logged so far

geneVars == <<listing, self, lrt>>

bebVars == <<rst, beb>>

corpusVars == <<corpus, summaries, branches, merged, run, files>>

vars == <<listing, self, lrt, rst, beb, corpus, summaries, branches, merged, run, files, args, log>>

----------------------------------------------------------------------------
(* Bounds of the model *)

\* the largest number of model sub-directories of one gene directory
MaxDirs == 3

\* the largest number of data rows of an rst file
MaxRows == 3

\* the largest number of gene directories of a corpus
MaxGenes == 2

\* the largest number of model sub-directories of a gene directory of a corpus
MaxCorpusDirs == 2

\* the largest number of rows of the file of branch-site comparisons
MaxBsRows == 1

\* the largest number of rows of the file of site comparisons
MaxSiteRows == 2

----------------------------------------------------------------------------
(* Values *)

Table(cols, rows) == [kind |-> "table", cols |-> cols, rows |-> rows]

\* pd.DataFrame()
EmptyFrame == Table(<<>>, <<>>)

\* Python's None
NoneValue == [kind |-> "none", cols |-> <<>>, rows |-> <<>>]

\* a raised exception, named by its type
Fault(what) == [kind |-> "fault", cols |-> <<what>>, rows |-> <<>>]

Unset == [kind |-> "unset", cols |-> <<>>, rows |-> <<>>]

IsFault(v) == v.kind = "fault"

Min(S) == CHOOSE x \in S : \A y \in S : x <= y

Range(s) == {s[i] : i \in DOMAIN s}

RECURSIVE Perms(_)
\* the sequences that list every element of S exactly once
Perms(S) ==
    IF S = {} THEN {<<>>}
    ELSE UNION {{<<x>> \o p : p \in Perms(S \ {x})} : x \in S}

RECURSIVE Flatten(_)
Flatten(ss) == IF ss = <<>> THEN <<>> ELSE Head(ss) \o Flatten(Tail(ss))

RECURSIVE Dedup(_)
\* the values of s in the order of their first occurrence (the key order of a dict
\* filled from s)
Dedup(s) ==
    IF s = <<>> THEN <<>>
    ELSE LET front == Dedup(SubSeq(s, 1, Len(s) - 1))
             last == s[Len(s)]
         IN  IF last \in Range(front) THEN front ELSE Append(front, last)

----------------------------------------------------------------------------
(* Directory names: utility.getModels, utility.readCodemlOut *)

RECURSIVE SplitHead(_, _)
\* s.split(sep, 1)[0]: the part of s before the first sep
SplitHead(s, sep) ==
    IF s = <<>> \/ Head(s) = sep THEN <<>>
    ELSE <<Head(s)>> \o SplitHead(Tail(s), sep)

\* the text of a token sequence that holds no delimiter and at most one token
Join(s) == IF s = <<>> THEN "" ELSE s[1]

\* the model code of a sub-directory name: the part before "~", then before "."
ModelCode(name) ==
    LET tmp == SplitHead(name, "~")
    IN  IF "." \in Range(tmp) THEN Join(SplitHead(tmp, ".")) ELSE Join(tmp)

getModels(dirs) == [i \in DOMAIN dirs |-> ModelCode(dirs[i].name)]

----------------------------------------------------------------------------
(* The rst files and the BEB tables: utility.getBebBs, utility.getBebSite *)

TextLine(w) ==
    [kind |-> "text", words |-> w, pos |-> 0, aa |-> "", nums |-> <<>>, stars |-> 0]

BlankLine ==
    [kind |-> "blank", words |-> <<>>, pos |-> 0, aa |-> "", nums |-> <<>>, stars |-> 0]

\* a data line of a branch-site rst file: position, amino acid, the four class
\* probabilities 0, 1, 2a, 2b (the trailing "( n)" is columns 5 and 6, dropped)
BsRow(pos, aa, c0, c1, c2a, c2b) ==
    [kind |-> "row", words |-> <<>>, pos |-> pos, aa |-> aa,
     nums |-> <<c0, c1, c2a, c2b>>, stars |-> 0]

\* a data line of a site rst file: position, amino acid, probability followed by
\* `stars` asterisks, mean w, "+-" (column tmp, dropped), standard error
SiteRow(pos, aa, prob, stars, mean_w, err) ==
    [kind |-> "row", words |-> <<>>, pos |-> pos, aa |-> aa,
     nums |-> <<prob, mean_w, err>>, stars |-> stars]

\* i.startswith("Bayes Empirical Bayes")
StartsWithBEB(line) ==
    /\ Len(line.words) >= 3
    /\ SubSeq(line.words, 1, 3) = <<"Bayes", "Empirical", "Bayes">>

\* word in i
Contains(line, word) == word \in Range(line.words)

\* pd.read_csv: one row per line that is not blank
ReadCsv(sub_lines) == SelectSeq(sub_lines, LAMBDA l : l.kind # "blank")

\* a cell holding a float
FloatCell(v) == [t |-> "float", v |-> v, stars |-> 0]

\* a cell holding a string: a number printed with `stars` trailing asterisks
StrCell(v, stars) == [t |-> "str", v |-> v, stars |-> stars]

\* 0.99, in thousandths
ProbThreshold == 990

\* df["aa"] != "-"
NotGap(row) == row.aa # "-"

BsKeepStrict(row) == row.prob.v > ProbThreshold

\* df["prob"] >= 0.99
BsKeep(row) == row.prob.v >= ProbThreshold

BsNotGapNone(row) == TRUE

\* the gap filter of getBebBs
BsNotGap(row) == NotGap(row)

BebBsCols == <<"Gene", "model", "pos", "aa", "prob">>

getBebBs(lines, gene, model) ==
    LET marks == {i \in DOMAIN lines : StartsWithBEB(lines[i])}
    IN  IF marks = {} THEN Fault("IndexError")
        ELSE
          LET idx_start == Min(marks) + 3
              df == ReadCsv(SubSeq(lines, idx_start, Len(lines)))
              withProb ==
                  [i \in DOMAIN df |->
                      [Gene |-> gene, model |-> model, pos |-> df[i].pos, aa |-> df[i].aa,
                       prob |-> FloatCell(df[i].nums[3] + df[i].nums[4])]]
              noGap == SelectSeq(withProb, BsNotGap)
              hits == SelectSeq(noGap, BsKeep)
          IN  IF hits # <<>> THEN Table(BebBsCols, hits) ELSE EmptyFrame

\* str(df["prob"].dtypes) == "float64": read_csv parsed every probability of a
\* non-empty column as a number
ProbIsFloat64(df) == df # <<>> /\ \A i \in DOMAIN df : df[i].stars = 0

SiteKeepAnyStar(row) == row.prob.stars >= 1

\* df["prob"].str.contains("\*\*")
SiteKeep(row) == row.prob.stars >= 2

\* str.strip("\*\*"): the asterisks (and backslashes) at both ends are removed
StripStars(cell) == [cell EXCEPT !.stars = 0]

BebSiteCols == <<"Gene", "model", "pos", "aa", "prob", "mean_w", "err">>

SiteSingleRowGuardOff(df) == FALSE

\* len(df) == 1
SiteSingleRow(df) == Len(df) = 1

getBebSite(lines, gene, model) ==
    LET bebs == {i \in DOMAIN lines : Contains(lines[i], "(BEB)")}
    IN  IF bebs = {} THEN Fault("IndexError")
        ELSE
          LET rest == SubSeq(lines, Min(bebs), Len(lines))
              probs == {i \in DOMAIN rest : Contains(rest[i], "Prob(w>1)")}
          IN  IF probs = {} THEN Fault("IndexError")
              ELSE
                LET idx_start == Min(probs) + 2
                    df == ReadCsv(SubSeq(rest, idx_start, Len(rest)))
                    cells ==
                        [i \in DOMAIN df |->
                            [pos |-> df[i].pos, aa |-> df[i].aa,
                             prob |-> IF ProbIsFloat64(df) THEN FloatCell(df[i].nums[1])
                                      ELSE StrCell(df[i].nums[1], df[i].stars),
                             mean_w |-> df[i].nums[2], err |-> df[i].nums[3]]]
                    noGap == SelectSeq(cells, NotGap)
                    starred == SelectSeq(noGap, SiteKeep)
                    out ==
                        [i \in DOMAIN starred |->
                            [Gene |-> gene, model |-> model, pos |-> starred[i].pos,
                             aa |-> starred[i].aa, prob |-> StripStars(starred[i].prob),
                             mean_w |-> starred[i].mean_w, err |-> starred[i].err]]
                IN  IF SiteSingleRow(df) THEN EmptyFrame
                    ELSE IF ProbIsFloat64(df) THEN NoneValue
                    ELSE IF starred # <<>> THEN Table(BebSiteCols, out)
                    ELSE NoneValue

----------------------------------------------------------------------------
(* The out files and the CodeML dictionary: utility.readCodemlOut *)

RECURSIVE IntOf(_)
\* int(s) of a string of decimal digits, held as the sequence of its digits
IntOf(digits) ==
    IF digits = <<>> THEN 0
    ELSE 10 * IntOf(SubSeq(digits, 1, Len(digits) - 1)) + digits[Len(digits)]

\* the text between "np:" and "):" of the "lnL(" line of an out file, lstripped
parseNp(st) == st.np

\* the models that have a BEB section in their rst file
BebModelTypes == ("site" :> <<"M2", "M8">>) @@ ("branch-site" :> <<"bsA">>)

\* the BEB entry readCodemlOut stores for one model sub-directory
readBeb(dir, gene) ==
    LET m == ModelCode(dir.name)
    IN  IF m \in Range(BebModelTypes["site"]) THEN getBebSite(dir.rst, gene, m)
        ELSE IF m \in Range(BebModelTypes["branch-site"]) THEN getBebBs(dir.rst, gene, m)
        ELSE EmptyFrame

\* the dictionary of one model: what codeml.read gives, np and BEB added
readCml(dir, gene) ==
    [np |-> parseNp(dir.out), lnL |-> dir.out.lnL, branches |-> dir.out.branches,
     BEB |-> readBeb(dir, gene)]

\* cml_dict: keys in the order of first insertion, a later sub-directory of the same
\* model code overwriting an earlier one; a fault of a BEB reader propagates
readCodemlOut(dirs, gene) ==
    LET codes == getModels(dirs)
        bad == {i \in DOMAIN dirs : IsFault(readBeb(dirs[i], gene))}
        lastOf(m) == CHOOSE i \in DOMAIN dirs :
                        /\ codes[i] = m
                        /\ \A j \in DOMAIN dirs : codes[j] = m => j <= i
    IN  IF bad # {} THEN readBeb(dirs[Min(bad)], gene)
        ELSE [kind |-> "dict", keys |-> Dedup(codes),
              rec |-> [m \in Range(codes) |-> readCml(dirs[lastOf(m)], gene)]]

----------------------------------------------------------------------------
(* The gene result set: EteResults.__init__ *)

\* an os.DirEntry of a gene directory, with the sub-directories scandir lists in it
DirEntry(name, dirs) == [kind |-> "DirEntry", name |-> name, dirs |-> dirs]

\* the str that DirEntry.path is
PathOf(entry) == [kind |-> "str", name |-> entry.name, dirs |-> entry.dirs]

\* EteResults(entry): entry.path and entry.name are read, so entry must be a DirEntry
EteResultsInit(entry) ==
    IF entry.kind # "DirEntry" THEN Fault("AttributeError")
    ELSE LET codeml == readCodemlOut(entry.dirs, entry.name)
         IN  IF IsFault(codeml) THEN codeml
             ELSE [kind |-> "EteResults", name |-> entry.name,
                   models |-> getModels(entry.dirs), codeml |-> codeml]

----------------------------------------------------------------------------
(* Decimal floats, and the chi-squared upper tail *)

Dec(m, e) == [m |-> m, e |-> e]

RECURSIVE Norm(_)
\* the mantissa brought to four digits, rounding
Norm(x) ==
    IF x.m >= 10000 THEN Norm(Dec((x.m + 5) \div 10, x.e - 1))
    ELSE IF x.m > 0 /\ x.m < 1000 THEN Norm(Dec(x.m * 10, x.e + 1))
    ELSE x

Mul(a, b) == Norm(Dec(a.m * b.m, a.e + b.e))

\* a < b, for normalised positive a and b
Less(a, b) == a.e > b.e \/ (a.e = b.e /\ a.m < b.m)

DecOne == Dec(1000, 3)

DecZero == Dec(0, 0)

\* exp(-1) = 0.3679
ExpNeg1 == Dec(3679, 4)

RECURSIVE ExpNeg(_)
\* exp(-d) for a natural number d
ExpNeg(d) ==
    IF d = 0 THEN DecOne
    ELSE IF d % 2 = 0 THEN LET h == ExpNeg(d \div 2) IN Mul(h, h)
    ELSE Mul(ExpNeg1, ExpNeg(d - 1))

RECURSIVE Factorial(_)
Factorial(n) == IF n = 0 THEN 1 ELSE n * Factorial(n - 1)

RECURSIVE Power(_, _)
Power(b, n) == IF n = 0 THEN 1 ELSE b * Power(b, n - 1)

RECURSIVE SumTo(_, _, _)
\* (k-1)! * sum over j < n of d^j / j!
SumTo(d, n, k) ==
    IF n = 0 THEN 0
    ELSE SumTo(d, n - 1, k) + (Power(d, n - 1) * Factorial(k - 1)) \div Factorial(n - 1)

\* the upper tail of the chi-squared distribution with an even number df = 2k > 0 of
\* degrees of freedom at x = 2d:  exp(-d) * sum over j < k of d^j / j!
UpperTail(x, df) ==
    LET d == x \div 2
        k == df \div 2
        e == ExpNeg(d)
    IN  Norm(Dec((e.m * SumTo(d, k, k)) \div Factorial(k - 1), e.e))

\* 2^-54 = 5.551e-17: an upper tail below it leaves a cdf that rounds to 1.0
HalfUlpOfOne == Dec(5551, 20)

\* a cell of the lrt and pval columns: a float, NaN, or the empty string
NumCell(x) == [t |-> "float", m |-> x.m, e |-> x.e]

NanCell == [t |-> "nan", m |-> 0, e |-> 0]

BlankCell == [t |-> "str", m |-> 0, e |-> 0]

\* 1 - stats.chi2.cdf(diff, degFree) in double precision: NaN when degFree is 0
\* (chi2 is defined for df > 0 only), and the cdf is a double, so the difference
\* is 0.0 once the upper tail is below half an ulp of 1.0
Chi2Pval(diff, degFree) ==
    IF degFree = 0 THEN NanCell
    ELSE LET sf == UpperTail(diff, degFree)
         IN  IF Less(sf, HalfUlpOfOne) THEN NumCell(DecZero) ELSE NumCell(sf)

----------------------------------------------------------------------------
(* The LRT table: EteResults.getLRT *)

\* valid comparisons: {null_model: [alternative_models]}
null_alt ==
    [ M0     |-> <<"M1", "M2", "M8", "M7", "bsA", "bsA1", "bsC", "bsD", "b_free">>,
      M1     |-> <<"M2", "M8", "bsA", "bsA1", "bsC", "bsD">>,
      M2     |-> <<"bsC", "bsD">>,
      M8     |-> <<"bsC", "bsD">>,
      M7     |-> <<"M2", "M8", "bsA", "bsA1", "bsC", "bsD">>,
      bsA    |-> <<"bsC", "bsD">>,
      bsA1   |-> <<"M2", "M8", "bsA", "bsC", "bsD">>,
      bsC    |-> <<"bsD">>,
      b_free |-> <<"bsA", "bsA1", "bsC", "bsD">>,
      b_neut |-> <<"bsA", "bsA1", "bsC", "bsD", "b_free">> ]

AlternatesOfM0 == null_alt["M0"]

AlternatesUnchecked(null) == <<"M0">> \o AlternatesOfM0

\* null_alt[k]
Alternates(null) == null_alt[null]

\* the keys of the dict {k: null_alt[k] for k in self.models if k in null_alt.keys()}
NullKeys(models) == Dedup(SelectSeq(models, LAMBDA k : k \in DOMAIN null_alt))

IntersectFirstOnly(models, alternates) ==
    IF Range(models) \cap Range(alternates) = {} THEN {}
    ELSE {CHOOSE a \in Range(models) \cap Range(alternates) : TRUE}

\* set(self.models) & set(alternates)
Intersect(models, alternates) == Range(models) \cap Range(alternates)

RECURSIVE OrdersOf(_, _)
\* for every key of `keys` one listing of its intersection
OrdersOf(models, keys) ==
    IF keys = <<>> THEN {<<>>}
    ELSE {(Head(keys) :> p) @@ f :
             p \in Perms(Intersect(models, Alternates(Head(keys)))),
             f \in OrdersOf(models, Tail(keys))}

\* list(intersect), for every key: a set is listed in an order the hashes of its
\* members decide, which differs from run to run
IntersectOrders(models) == OrdersOf(models, NullKeys(models))

Abs(n) == IF n < 0 THEN -n ELSE n

DegFreeSigned(df_alt, df_null) == df_alt - df_null

\* degFree = abs(df_alt - df_null)
DegFree(df_alt, df_null) == Abs(df_alt - df_null)

WorseFitOrEqual(lnl1, lnl0) == lnl1 <= lnl0

\* lnl1 < lnl0
WorseFit(lnl1, lnl0) == lnl1 < lnl0

LrtCols == <<"file", "null", "alt", "df", "lrt", "pval", "note">>

\* the row of one comparison; values and null_data are entries of the codeml
\* dictionary of step 1
LrtRow(file, model, key, values, null_data) ==
    LET df_alt == IntOf(values.np)
        df_null == IntOf(null_data.np)
        lnl1 == values.Lnl
        lnl0 == null_data.Lnl
        degFree == DegFree(df_alt, df_null)
        diff == 2 * (lnl1 - lnl0)
    IN  IF WorseFit(lnl1, lnl0)
        THEN [file |-> file, null |-> model, alt |-> key, df |-> degFree,
              lrt |-> BlankCell, pval |-> BlankCell, note |-> "lnl1 < lnl0"]
        ELSE [file |-> file, null |-> model, alt |-> key, df |-> degFree,
              lrt |-> NumCell(Dec(diff, 0)), pval |-> Chi2Pval(diff, degFree),
              note |-> ""]

NoLrtWarning == "No LRT statistics can be run based on the provided models."

\* getLRT, `order` giving the list made of each intersection; the result is what
\* is returned and whether the warning was logged
getLRT(obj, order) ==
    LET keys == NullKeys(obj.models)
        \* keys_to_pop removed
        kept == SelectSeq(keys, LAMBDA k : Len(order[k]) # 0)
        codeml == [m \in DOMAIN obj.codeml.rec |->
                      [np |-> obj.codeml.rec[m].np, Lnl |-> obj.codeml.rec[m].lnL]]
        rowsFor(model) ==
            IF model \in Range(kept)
            THEN [j \in DOMAIN order[model] |->
                     LrtRow(obj.name, model, order[model][j],
                            codeml[order[model][j]], codeml[model])]
            ELSE <<>>
        lrt_list == Flatten([i \in DOMAIN obj.models |-> rowsFor(obj.models[i])])
    IN  IF kept = <<>>
        THEN [ret |-> EmptyFrame, warned |-> TRUE]
        ELSE [ret |-> Table(LrtCols, lrt_list), warned |-> FALSE]

----------------------------------------------------------------------------
(* pandas.concat *)

\* pd.concat(objs): None entries are dropped; no entry, or none but None entries,
\* is a ValueError; the columns are those of the frames in order of appearance
PdConcat(objs) ==
    LET frames == SelectSeq(objs, LAMBDA o : o.kind # "none")
    IN  IF frames = <<>> THEN Fault("ValueError")
        ELSE Table(Dedup(Flatten([i \in DOMAIN frames |-> frames[i].cols])),
                   Flatten([i \in DOMAIN frames |-> frames[i].rows]))

----------------------------------------------------------------------------
(* The summary and branch tables: EteResults.getSummary, utility.getBranchResults,
   utility.buildSummaryTable *)

\* the categories, in the order of the keys of the summary dictionaries
Categories == <<"null", "site", "branch-site", "clade", "branch">>

model_types ==
    ("null" :> <<"M0">>) @@ ("site" :> <<"M1", "M2", "M7", "M8">>)
        @@ ("branch-site" :> <<"bsA", "bsA1">>) @@ ("clade" :> <<"bsC", "bsD">>)
        @@ ("branch" :> <<"b_free", "b_neut">>)

\* [k for k, v in model_types.items() if model in v]
ModelTypesOf(model) == SelectSeq(Categories, LAMBDA k : model \in Range(model_types[k]))

\* the categories whose models have a table of branch rates read
BranchCategories == {"null", "site", "branch"}

\* a Python dict with string keys: the keys in insertion order, and the values
Dict(keys, val) == [kind |-> "dict", keys |-> keys, val |-> val]

\* utility.getBranchResults: one row for each branch; no branch is a ValueError of
\* pd.concat
getBranchResults(input, file) ==
    PdConcat([i \in DOMAIN input |->
                 Table(<<"file", "branch">>, <<[file |-> file, branch |-> input[i]]>>)])

MergeOnFileFirstRow(data, tmp_branch) ==
    Table(<<"file", "model", "Lnl", "np", "branch">>,
          <<[file |-> data.file, model |-> data.model, Lnl |-> data.Lnl, np |-> data.np,
             branch |-> tmp_branch.rows[1].branch]>>)

\* data.merge(tmp_branch, on="file", how="left"): the one row of data joined to each
\* branch row of the same file
MergeOnFile(data, tmp_branch) ==
    Table(<<"file", "model", "Lnl", "np", "branch">>,
          [i \in DOMAIN tmp_branch.rows |->
              [file |-> data.file, model |-> data.model, Lnl |-> data.Lnl, np |-> data.np,
               branch |-> tmp_branch.rows[i].branch]])

\* the common columns of the summary row of a model (the columns of the parameter
\* blocks, which vary with the category, are left out)
SummaryData(file, model, cml) ==
    [file |-> file, model |-> model, Lnl |-> cml.lnL, np |-> cml.np]

SummaryCols == <<"file", "model", "Lnl", "np">>

\* utility.buildSummaryTable: the categories with no row are left out
buildSummaryTable(input) ==
    LET keys == SelectSeq(Categories, LAMBDA k : Len(input[k]) # 0)
    IN  Dict(keys, [k \in Range(keys) |-> Table(SummaryCols, input[k])])

\* getSummary: the summary dictionary and the branch table, or the fault raised
getSummary(obj) ==
    LET models == obj.codeml.keys
        cml(m) == obj.codeml.rec[m]
        typed(m) == ModelTypesOf(m) # <<>>
        modelType(m) == ModelTypesOf(m)[1]
        branched(m) == modelType(m) \in BranchCategories
        \* the first model the loop fails on
        bad == {i \in DOMAIN models :
                   \/ ~typed(models[i])
                   \/ branched(models[i]) /\ cml(models[i]).branches = <<>>}
        summary == [k \in Range(Categories) |->
                       LET of == SelectSeq(models, LAMBDA m : modelType(m) = k)
                       IN  [i \in DOMAIN of |-> SummaryData(obj.name, of[i], cml(of[i]))]]
        withBranch == SelectSeq(models, branched)
        branch == [i \in DOMAIN withBranch |->
                      MergeOnFile(SummaryData(obj.name, withBranch[i], cml(withBranch[i])),
                                  getBranchResults(cml(withBranch[i]).branches, obj.name))]
    IN  IF bad # {}
        THEN IF ~typed(models[Min(bad)]) THEN Fault("IndexError") ELSE Fault("ValueError")
        ELSE [kind |-> "ok", summary |-> buildSummaryTable(summary),
              branch |-> IF Len(branch) > 0 THEN PdConcat(branch) ELSE EmptyFrame]

\* getSites: the BEB entries of the models, concatenated
getSites(obj) ==
    PdConcat([i \in DOMAIN obj.codeml.keys |-> obj.codeml.rec[obj.codeml.keys[i]].BEB])

----------------------------------------------------------------------------
(* The corpus: utility.mergeSummaryDicts, utility.summaryDictToCsv,
   utility.parseCodeMl and the script eteTools.py *)

MergeKeepAll(v) == TRUE

\* the keys that are not popped: len(v) != 0, of a list its entries and of a
\* DataFrame its rows
MergeKeep(v) == Len(v.rows) # 0

\* utility.mergeSummaryDicts
mergeSummaryDicts(input) ==
    LET \* the tables appended for a key
        lists == [k \in Range(Categories) |->
                     LET with == SelectSeq(input, LAMBDA d : k \in Range(d.keys))
                     IN  [i \in DOMAIN with |-> with[i].val[k]]]
        \* the list, concatenated unless it is empty
        ret == [k \in Range(Categories) |->
                   IF Len(lists[k]) = 0 THEN [kind |-> "list", cols |-> <<>>, rows |-> <<>>]
                   ELSE PdConcat(lists[k])]
        keys == SelectSeq(Categories, LAMBDA k : MergeKeep(ret[k]))
    IN  Dict(keys, [k \in Range(keys) |-> ret[k]])

\* a file of the output directory
File(name, table) == [name |-> name, table |-> table]

\* utility.summaryDictToCsv: one file model-<key>.csv for each key
summaryDictToCsv(input) ==
    {File(<<"model-", k, ".csv">>, input.val[k]) : k \in Range(input.keys)}

GeneFaultSwallowed(fault, warned) ==
    [kind |-> "ok", l |-> EmptyFrame, s |-> Dict(<<>>, <<>>), b |-> EmptyFrame,
     d |-> EmptyFrame, warned |-> warned]

\* what the body of the loop of parseCodeMl has when it ends in a fault
GeneFault(fault, warned) == [kind |-> "fault", fault |-> fault, warned |-> warned]

\* d = EteResults(...).getSites() returned: the tables appended for the gene
AfterSites(l, sb, d) ==
    IF IsFault(d) THEN GeneFault(d, l.warned)
    ELSE [kind |-> "ok", l |-> l.ret, s |-> sb.summary, b |-> sb.branch, d |-> d,
          warned |-> l.warned]

\* s, b = EteResults(...).getSummary() returned; then the third object and getSites
AfterSummary(l, sb, forSites) ==
    IF IsFault(sb) THEN GeneFault(sb, l.warned)
    ELSE IF IsFault(forSites) THEN GeneFault(forSites, l.warned)
    ELSE AfterSites(l, sb, getSites(forSites))

\* l = EteResults(...).getLRT() returned; then the second object and getSummary
AfterLrt(l, forSummary, forSites) ==
    IF IsFault(forSummary) THEN GeneFault(forSummary, l.warned)
    ELSE AfterSummary(l, getSummary(forSummary), forSites)

\* the body of the loop, with the three objects it builds
GeneTables(forLrt, forSummary, forSites, order) ==
    IF IsFault(forLrt) THEN GeneFault(forLrt, FALSE)
    ELSE AfterLrt(getLRT(forLrt, order), forSummary, forSites)

\* what the loop of parseCodeMl gets for one gene directory: three objects are
\* built from outdir.path, one for each table
parseGene(outdir, order) ==
    GeneTables(EteResultsInit(PathOf(outdir)), EteResultsInit(PathOf(outdir)),
               EteResultsInit(PathOf(outdir)), order)

\* the return statement of parseCodeMl: the tuple, or the fault of a pd.concat
ParsedTables(lrtAll, summary, branchesAll, bebAll, warned) ==
    IF IsFault(lrtAll) THEN [ret |-> lrtAll, warned |-> warned]
    ELSE IF IsFault(branchesAll) THEN [ret |-> branchesAll, warned |-> warned]
    ELSE IF IsFault(bebAll) THEN [ret |-> bebAll, warned |-> warned]
    ELSE [ret |-> [kind |-> "tuple", items |-> <<lrtAll, summary, branchesAll, bebAll>>],
          warned |-> warned]

\* parseCodeMl, given what its loop gets for every gene: the first fault ends it
ParsedGenes(got) ==
    LET bad == {i \in DOMAIN got : got[i].kind = "fault"}
    IN  IF bad # {}
        THEN [ret |-> got[Min(bad)].fault, warned |-> \E i \in 1..Min(bad) : got[i].warned]
        ELSE ParsedTables(PdConcat([i \in DOMAIN got |-> got[i].l]),
                          mergeSummaryDicts([i \in DOMAIN got |-> got[i].s]),
                          PdConcat([i \in DOMAIN got |-> got[i].b]),
                          PdConcat([i \in DOMAIN got |-> got[i].d]),
                          \E i \in DOMAIN got : got[i].warned)

\* utility.parseCodeMl: the four tables, or the first fault; and whether the
\* warning of getLRT was logged on the way
parseCodeMl(input, orders) ==
    ParsedGenes([i \in DOMAIN input |-> parseGene(input[i], orders[i])])

\* the script after parseCodeMl: its result unpacked into three names, the tables
\* written
Script(p) ==
    IF IsFault(p.ret)
    THEN [pc |-> "fault", error |-> p.ret.cols[1], files |-> {},
          log |-> IF p.warned THEN {NoLrtWarning} ELSE {}]
    ELSE IF Len(p.ret.items) # 3
    THEN [pc |-> "fault", error |-> "ValueError", files |-> {},
          log |-> IF p.warned THEN {NoLrtWarning} ELSE {}]
    ELSE [pc |-> "done", error |-> "",
          files |-> summaryDictToCsv(p.ret.items[2])
                       \cup {File(<<"lrt.csv">>, p.ret.items[1]),
                             File(<<"branches.csv">>, p.ret.items[3])},
          log |-> (IF p.warned THEN {NoLrtWarning} ELSE {}) \cup {"Finished"}]

\* the script
main(outdirs, orders) == Script(parseCodeMl(outdirs, orders))

----------------------------------------------------------------------------
(* Inputs: gene directories *)

\* the first lines of a branch-site rst file, up to the line before the data
BsRstHead ==
    << TextLine(<<"Naive", "Empirical", "Bayes", "(NEB)", "probabilities">>),
       TextLine(<<"Bayes", "Empirical", "Bayes", "(BEB)", "probabilities">>),
       TextLine(<<"(amino", "acids", "refer", "to", "1st", "sequence)">>),
       BlankLine >>

\* the first lines of the BEB part of a site rst file, up to the line before the data
SiteRstHead ==
    << TextLine(<<"Bayes", "Empirical", "Bayes", "(BEB)", "probabilities">>),
       TextLine(<<"Positively", "selected", "sites">>),
       BlankLine,
       TextLine(<<"Prob(w>1)", "mean", "w">>),
       BlankLine >>

\* an rst file as CodeML writes it for the model: two sites, one of them significant
TypicalRst(code) ==
    IF code \in Range(BebModelTypes["branch-site"])
    THEN BsRstHead \o <<BsRow(1, "K", 10, 0, 900, 90), BsRow(2, "L", 500, 0, 400, 100)>>
    ELSE IF code \in Range(BebModelTypes["site"])
    THEN SiteRstHead \o <<SiteRow(1, "K", 993, 2, 2456, 321), SiteRow(2, "L", 612, 0, 1800, 900)>>
    ELSE <<>>

\* the model codes of the sub-directories: null models with allowed alternatives
\* among them, and bsD, which is the null model of no comparison
DirCodes == {"M0", "M1", "M2", "bsA1", "bsD"}

\* the names of model sub-directories: "<code>~h", and "M0.1~h"
DirNames == {<<c, "~", "h">> : c \in DirCodes} \cup {<<"M0", ".", "1", "~", "h">>}

\* an out file: the digits of np and the log-likelihood of its lnL( line, and the
\* branches its table of branch rates lists
OutFile(n, l) == [np |-> <<n>>, lnL |-> l, branches |-> <<"4..1", "4..2">>]

\* out files: parameter counts 1, 3, 5 with rising log-likelihoods, and a model of
\* five parameters that fits no better than the one of one parameter
OutFiles == {OutFile(1, -1000), OutFile(3, -997), OutFile(5, -950), OutFile(5, -1000)}

GeneDirs ==
    {[name |-> n, out |-> o, rst |-> TypicalRst(ModelCode(n))] : n \in DirNames, o \in OutFiles}

\* directory listings: no two entries of a directory have the same name
Listings ==
    UNION {{d \in [1..n -> GeneDirs] : \A i, j \in 1..n : d[i].name = d[j].name => i = j}
              : n \in 0..MaxDirs}

----------------------------------------------------------------------------
(* One gene result set and the calls made on it *)

\* the variables of the other specifications, at rest
BebAtRest == rst = Unset /\ beb = Unset

CompareAtRest == args = Unset

CorpusAtRest ==
    /\ corpus = <<>>
    /\ summaries = <<>>
    /\ branches = <<>>
    /\ merged = Unset
    /\ run = Unset
    /\ files = {}

Init ==
    /\ listing \in Listings
    /\ self = EteResultsInit(DirEntry("gene1", listing))
    /\ lrt = Unset
    /\ log = {}
    /\ BebAtRest
    /\ CorpusAtRest
    /\ CompareAtRest

\* getLRT is called once on an object (parseCodeMl builds one for each call)
GetLRT ==
    /\ self.kind = "EteResults"
    /\ lrt = Unset
    /\ \E order \in IntersectOrders(self.models) :
          \E r \in {getLRT(self, order)} :
              /\ lrt' = r.ret
              /\ log' = IF r.warned THEN log \cup {NoLrtWarning} ELSE log
    /\ UNCHANGED <<listing, self, bebVars, corpusVars, args>>

Next == GetLRT

Spec == Init /\ [][Next]_vars

----------------------------------------------------------------------------
(* Properties of the LRT table *)

\* the models fitted for the gene
Fitted == Range(self.models)

\* the (null, alt) pairs of the allowed-comparison table
AllowedPairs == UNION {{<<k, a>> : a \in Range(null_alt[k])} : k \in DOMAIN null_alt}

\* the registry null models that are fitted while none of their alternatives is
NullsWithoutAlternative ==
    {k \in Fitted \cap DOMAIN null_alt : Range(null_alt[k]) \cap Fitted = {}}

LrtRows == IF lrt.kind = "table" THEN Range(lrt.rows) ELSE {}

\* the parameter count and the log-likelihood the gene's Result Record holds
ParamCount(m) == IntOf(self.codeml.rec[m].np)

LogLikelihood(m) == self.codeml.rec[m].lnL

\* C1: every row of the table getLRT returns has a (null, alt) pair of the
\* allowed-comparison table, both models of it fitted for the gene; and a registry
\* null model none of whose allowed alternatives is fitted has no row.
C1_RowsAreAllowedAndFitted ==
    /\ \A r \in LrtRows :
          /\ <<r.null, r.alt>> \in AllowedPairs
          /\ r.null \in Fitted
          /\ r.alt \in Fitted
    /\ \A k \in NullsWithoutAlternative : \A r \in LrtRows : r.null # k

\* getLRT has returned rows for a gene that also has a fitted null model without
\* any fitted alternative
C1_Witness ==
    /\ lrt.kind = "table"
    /\ lrt.rows # <<>>
    /\ NullsWithoutAlternative # {}

\* the gene of the end-to-end scenario: one sub-directory each of M0, M1 and M2,
\* parameter counts 1, 3, 5, log-likelihoods strictly increasing
ScenarioGene ==
    /\ self.kind = "EteResults"
    /\ self.models \in Perms({"M0", "M1", "M2"})
    /\ ParamCount("M0") = 1 /\ ParamCount("M1") = 3 /\ ParamCount("M2") = 5
    /\ LogLikelihood("M0") < LogLikelihood("M1")
    /\ LogLikelihood("M1") < LogLikelihood("M2")

\* C2: for the scenario gene getLRT returns exactly three rows, (M0,M1,df=2),
\* (M0,M2,df=4) and (M1,M2,df=2), each with an empty note.
C2_ScenarioRows ==
    (ScenarioGene /\ lrt # Unset) =>
        /\ lrt.kind = "table"
        /\ Len(lrt.rows) = 3
        /\ {<<r.null, r.alt, r.df, r.note>> : r \in LrtRows}
              = {<<"M0", "M1", 2, "">>, <<"M0", "M2", 4, "">>, <<"M1", "M2", 2, "">>}

\* getLRT has returned for the scenario gene
C2_Witness == ScenarioGene /\ lrt.kind = "table"

\* C4: a row whose alternative has the lower log-likelihood has a blank statistic,
\* a blank p-value and the note "lnl1 < lnl0"; every other row has an empty note and
\* a statistic and a p-value that were computed (neither is the blank string).
C4_NoteIffWorseFit ==
    \A r \in LrtRows :
        IF LogLikelihood(r.alt) < LogLikelihood(r.null)
        THEN r.lrt = BlankCell /\ r.pval = BlankCell /\ r.note = "lnl1 < lnl0"
        ELSE r.note = "" /\ r.lrt.t = "float" /\ r.pval # BlankCell

\* one table holds a row of either kind, and a row of equal log-likelihoods
C4_Witness ==
    /\ \E r \in LrtRows : r.note = "lnl1 < lnl0"
    /\ \E r \in LrtRows : LogLikelihood(r.alt) = LogLikelihood(r.null) /\ r.note = ""

\* C5: df is the absolute difference of the two parameter counts: it is never
\* negative, and it is what the parameter counts give when swapped.
C5_DfIsAbsoluteDifference ==
    \A r \in LrtRows :
        LET a == ParamCount(r.alt)
            n == ParamCount(r.null)
        IN  /\ r.df = (IF a >= n THEN a - n ELSE n - a)
            /\ r.df >= 0
            /\ r.df = DegFree(n, a)

\* a row whose alternative has fewer parameters than its null model
C5_Witness ==
    \E r \in LrtRows : ParamCount(r.alt) < ParamCount(r.null) /\ r.df > 0

\* x is a number with 0 < x <= 1
InUnitInterval(c) ==
    /\ c.t = "float"
    /\ c.m > 0
    /\ ~Less(DecOne, Dec(c.m, c.e))

\* |x - 0.0498| <= 0.0001
Near0498(c) == c.t = "float" /\ c.e = 5 /\ c.m >= 4970 /\ c.m <= 4990

\* C6: a row whose alternative fits at least as well has the statistic
\* 2 * (lnL(alt) - lnL(null)) and a p-value in (0, 1]; with df = 2 and the
\* statistic 6 the p-value is about 0.0498.
C6_StatisticAndPvalue ==
    \A r \in LrtRows :
        LogLikelihood(r.alt) >= LogLikelihood(r.null) =>
            /\ r.lrt = NumCell(Dec(2 * (LogLikelihood(r.alt) - LogLikelihood(r.null)), 0))
            /\ InUnitInterval(r.pval)
            /\ (r.df = 2 /\ r.lrt.m = 6) => Near0498(r.pval)

\* the place of the first sub-directory of the model code m in the listing
FirstFitted(m) == Min({i \in DOMAIN self.models : self.models[i] = m})

\* C15: the table getLRT returns has at most one row for a (null, alt) pair, the
\* rows of one null model are next to each other, and the null models come in the
\* order of their first place in the list of fitted models; also when two
\* sub-directories have the same model code.
C15_OneRowPerPairContiguous ==
    lrt.kind = "table" =>
        /\ \A i, j \in DOMAIN lrt.rows :
              (lrt.rows[i].null = lrt.rows[j].null /\ lrt.rows[i].alt = lrt.rows[j].alt)
                  => i = j
        /\ \A i, j, k \in DOMAIN lrt.rows :
              (i < j /\ j < k /\ lrt.rows[i].null = lrt.rows[k].null)
                  => lrt.rows[j].null = lrt.rows[i].null
        /\ \A i, j \in DOMAIN lrt.rows :
              (i < j /\ lrt.rows[i].null # lrt.rows[j].null)
                  => FirstFitted(lrt.rows[i].null) < FirstFitted(lrt.rows[j].null)

----------------------------------------------------------------------------
(* The BEB readers applied to rst files *)

GeneAtRest == listing = <<>> /\ self = Unset /\ lrt = Unset

\* a branch-site rst file without the BEB section
BsRstHeadNoBeb ==
    << TextLine(<<"Naive", "Empirical", "Bayes", "(NEB)", "probabilities">>),
       TextLine(<<"(amino", "acids", "refer", "to", "1st", "sequence)">>),
       BlankLine >>

\* the NEB part of a site rst file, which comes before the BEB part and lists a
\* significant site of its own
SiteNebPart ==
    << TextLine(<<"Naive", "Empirical", "Bayes", "(NEB)", "probabilities">>),
       TextLine(<<"Positively", "selected", "sites">>),
       BlankLine,
       TextLine(<<"Prob(w>1)", "mean", "w">>),
       BlankLine,
       SiteRow(9, "A", 999, 2, 2500, 100),
       BlankLine >>

\* the BEB part of a site rst file that lacks the line of "Prob(w>1)"
SiteRstHeadNoProb ==
    << TextLine(<<"Bayes", "Empirical", "Bayes", "(BEB)", "probabilities">>),
       TextLine(<<"Positively", "selected", "sites">>),
       BlankLine >>

\* the 2a and 2b class probabilities of a data line: sums of 0.989, 0.990, 0.991
\* and 0.030
BsClassPairs == {<<900, 89>>, <<900, 90>>, <<495, 496>>, <<10, 20>>}

AminoAcids == {"K", "-"}

BsRowKinds == AminoAcids \X BsClassPairs

\* the probability of a data line of a site file and the asterisks after it: CodeML
\* marks a probability above 0.95 with one and above 0.99 with two
SiteProbs == {<<612, 0>>, <<960, 1>>, <<993, 2>>}

SiteRowKinds == AminoAcids \X SiteProbs

\* after the data: nothing, or an empty line
Tails == {<<>>, <<BlankLine>>}

BsData(kinds) ==
    [i \in DOMAIN kinds |->
        BsRow(i, kinds[i][1], 1000 - kinds[i][2][1] - kinds[i][2][2], 0,
              kinds[i][2][1], kinds[i][2][2])]

SiteData(kinds) ==
    [i \in DOMAIN kinds |-> SiteRow(i, kinds[i][1], kinds[i][2][1], kinds[i][2][2], 2456, 321)]

\* an rst file: the model it belongs to, its lines, and for the properties the data
\* lines of its BEB table and whether its section markers are there
RstFile(model, head, data, tail, marked) ==
    [model |-> model, lines |-> head \o data \o tail, data |-> data, marked |-> marked]

BsRstFiles ==
    {RstFile("bsA", h[1], BsData(k), t, h[2]) :
        h \in {<<BsRstHead, TRUE>>, <<BsRstHeadNoBeb, FALSE>>},
        k \in UNION {[1..n -> BsRowKinds] : n \in 0..MaxRows},
        t \in Tails}

SiteRstFiles ==
    {RstFile(m, h[1], SiteData(k), t, h[2]) :
        m \in {"M2", "M8"},
        h \in {<<SiteNebPart \o SiteRstHead, TRUE>>, <<SiteNebPart, FALSE>>,
               <<SiteNebPart \o SiteRstHeadNoProb, FALSE>>},
        k \in UNION {[1..n -> SiteRowKinds] : n \in 0..MaxRows},
        t \in Tails}

InitBeb ==
    /\ rst \in BsRstFiles \cup SiteRstFiles
    /\ beb = Unset
    /\ log = {}
    /\ GeneAtRest
    /\ CorpusAtRest
    /\ CompareAtRest

GetBebBs ==
    /\ rst.model \in Range(BebModelTypes["branch-site"])
    /\ beb = Unset
    /\ beb' = getBebBs(rst.lines, "gene1", rst.model)
    /\ UNCHANGED <<rst, geneVars, corpusVars, args, log>>

GetBebSite ==
    /\ rst.model \in Range(BebModelTypes["site"])
    /\ beb = Unset
    /\ beb' = getBebSite(rst.lines, "gene1", rst.model)
    /\ UNCHANGED <<rst, geneVars, corpusVars, args, log>>

NextBeb == GetBebBs \/ GetBebSite

SpecBeb == InitBeb /\ [][NextBeb]_vars

----------------------------------------------------------------------------
(* Properties of the BEB tables *)

\* what a row of a BEB table says: gene, model, position, amino acid, probability
BebRowView(r) == <<r.Gene, r.model, r.pos, r.aa, r.prob.v, r.prob.stars>>

BebView(table) == [i \in DOMAIN table.rows |-> BebRowView(table.rows[i])]

\* the data lines of a branch-site file that are no gap and whose 2a and 2b
\* components sum to 0.99 or more
BsQualifying(data) ==
    SelectSeq(data, LAMBDA l : l.aa # "-" /\ l.nums[3] + l.nums[4] >= 990)

BsReturned == rst # Unset /\ rst.model = "bsA" /\ rst.marked /\ beb # Unset

\* C9: the table getBebBs returns holds exactly the data rows that are no gap and
\* whose probability, the sum of the 2a and 2b components, is 0.99 or more; it is
\* empty if there is none, and it never holds a gap row.
C9_BsRowsAreTheQualifying ==
    BsReturned =>
        LET q == BsQualifying(rst.data)
        IN  /\ beb.kind = "table"
            /\ BebView(beb)
                  = [i \in DOMAIN q |->
                        <<"gene1", rst.model, q[i].pos, q[i].aa,
                          q[i].nums[3] + q[i].nums[4], 0>>]
            /\ \A i \in DOMAIN beb.rows : beb.rows[i].aa # "-"

\* a table with a row of probability exactly 0.99, from a file that also has a gap
\* row of 0.99 or more and a row below 0.99
C9_Witness ==
    /\ BsReturned
    /\ \E i \in DOMAIN beb.rows : beb.rows[i].prob.v = 990
    /\ \E i \in DOMAIN rst.data :
          rst.data[i].aa = "-" /\ rst.data[i].nums[3] + rst.data[i].nums[4] >= 990
    /\ \E i \in DOMAIN rst.data :
          rst.data[i].aa # "-" /\ rst.data[i].nums[3] + rst.data[i].nums[4] < 990

\* the data lines of a site file that are no gap and carry the two asterisks
SiteQualifying(data) == SelectSeq(data, LAMBDA l : l.aa # "-" /\ l.stars = 2)

SiteReturned == rst # Unset /\ rst.model \in {"M2", "M8"} /\ rst.marked /\ beb # Unset

\* C10: the table getBebSite returns holds exactly the data rows that are no gap
\* and carry the two-asterisk marker, the marker stripped from the probability; for
\* a data table of exactly one row it is empty.
C10_SiteRowsAreTheStarred ==
    SiteReturned =>
        LET q == IF Len(rst.data) = 1 THEN <<>> ELSE SiteQualifying(rst.data)
        IN  /\ beb.kind = "table"
            /\ BebView(beb)
                  = [i \in DOMAIN q |->
                        <<"gene1", rst.model, q[i].pos, q[i].aa, q[i].nums[1], 0>>]

\* the column set (gene, model, position, amino acid, probability)
BebColumnSet == {"Gene", "model", "pos", "aa", "prob"}

\* C11: a BEB table with rows, whichever of getBebBs and getBebSite returned it,
\* has the five columns gene, model, position, amino acid and probability, and no
\* other column.
C11_BebColumnSet ==
    (beb.kind = "table" /\ beb.rows # <<>>) =>
        /\ Range(beb.cols) = BebColumnSet
        /\ Len(beb.cols) = 5
        /\ \A i \in DOMAIN beb.rows : DOMAIN beb.rows[i] = BebColumnSet

----------------------------------------------------------------------------
(* The BEB entries of a gene result set and getSites *)

\* the rst files that have the markers of their BEB section
MarkedRstFiles == {f \in BsRstFiles \cup SiteRstFiles : f.marked}

\* the sub-directory of the model the rst file belongs to
RstDir(file) == [name |-> <<file.model, "~", "h">>, out |-> OutFile(3, -997), rst |-> file.lines]

\* a gene directory: the sub-directory of the rst file, alone or after one of M0
InitSites ==
    /\ rst \in MarkedRstFiles
    /\ listing \in {<<RstDir(rst)>>,
                    <<[name |-> <<"M0", "~", "h">>, out |-> OutFile(1, -1000), rst |-> <<>>],
                      RstDir(rst)>>}
    /\ self = EteResultsInit(DirEntry("gene1", listing))
    /\ lrt = Unset
    /\ beb = Unset
    /\ log = {}
    /\ CorpusAtRest
    /\ CompareAtRest

GetSites ==
    /\ self.kind = "EteResults"
    /\ beb = Unset
    /\ beb' = getSites(self)
    /\ UNCHANGED <<rst, geneVars, corpusVars, args, log>>

NextSites == GetSites

SpecSites == InitSites /\ [][NextSites]_vars

\* C16: the BEB entry readCodemlOut stores for a fitted model is a table, which may
\* be empty, and never an absent value; and getSites returns a table for a gene
\* with a fitted model.
C16_BebEntriesAreTables ==
    /\ self.kind = "EteResults" =>
          \A m \in Range(self.codeml.keys) : self.codeml.rec[m].BEB.kind = "table"
    /\ (beb # Unset /\ self.codeml.keys # <<>>) => beb.kind = "table"

----------------------------------------------------------------------------
(* A corpus of gene directories *)

\* the model codes of the corpus: one of each category
CorpusCodes == <<"M0", "M2", "bsA1", "bsD", "b_neut">>

CorpusDir(code) ==
    [name |-> <<code, "~", "h">>, out |-> OutFile(3, -997), rst |-> TypicalRst(code)]

\* the listings of the gene directories: any MaxCorpusDirs of the codes, listed in
\* one order
CorpusListings ==
    {LET cs == SelectSeq(CorpusCodes, LAMBDA c : c \in S)
     IN  [i \in DOMAIN cs |-> CorpusDir(cs[i])]
        : S \in {T \in SUBSET Range(CorpusCodes) : Cardinality(T) <= MaxCorpusDirs}}

\* the branches of the tree of the i-th gene: one more than its number
GeneBranches(i) == [j \in 1..(i + 1) |-> <<"4..", j>>]

\* the sub-directories, the out file of each listing the branches bs
WithBranches(dirs, bs) ==
    [j \in DOMAIN dirs |-> [dirs[j] EXCEPT !.out = [@ EXCEPT !.branches = bs]]]

\* listDirs(args.input): the DirEntry of every gene directory
Corpora ==
    UNION {{[i \in 1..n |-> DirEntry(<<"gene", i>>, WithBranches(ls[i], GeneBranches(i)))]
               : ls \in [1..n -> CorpusListings]}
              : n \in 0..MaxGenes}

RECURSIVE CorpusOrders(_)
\* for every gene, the orders its intersections can be listed in
CorpusOrders(input) ==
    IF input = <<>> THEN {<<>>}
    ELSE {<<o>> \o rest : o \in IntersectOrders(getModels(Head(input).dirs)),
                          rest \in CorpusOrders(Tail(input))}

----------------------------------------------------------------------------
(* The summary dictionaries of the genes, merged and written *)

InitMerge ==
    /\ corpus \in Corpora
    /\ summaries = <<>>
    /\ branches = <<>>
    /\ merged = Unset
    /\ files = {}
    /\ run = Unset
    /\ log = {}
    /\ GeneAtRest
    /\ BebAtRest
    /\ CompareAtRest

\* s, b = EteResults(...).getSummary(); summary.append(s); branches.append(b), for
\* the next gene
GetSummary ==
    /\ merged = Unset
    /\ Len(summaries) < Len(corpus)
    /\ \E sb \in {getSummary(EteResultsInit(corpus[Len(summaries) + 1]))} :
          /\ ~IsFault(sb)
          /\ summaries' = Append(summaries, sb.summary)
          /\ branches' = Append(branches, sb.branch)
    /\ UNCHANGED <<corpus, merged, files, run, args, log, geneVars, bebVars>>

MergeSummaryDicts ==
    /\ merged = Unset
    /\ Len(summaries) = Len(corpus)
    /\ merged' = mergeSummaryDicts(summaries)
    /\ UNCHANGED <<corpus, summaries, branches, files, run, args, log, geneVars, bebVars>>

SummaryDictToCsv ==
    /\ merged # Unset
    /\ files' = files \cup summaryDictToCsv(merged)
    /\ UNCHANGED <<corpus, summaries, branches, merged, run, args, log, geneVars, bebVars>>

NextMerge == GetSummary \/ MergeSummaryDicts \/ SummaryDictToCsv

SpecMerge == InitMerge /\ [][NextMerge]_vars

\* the categories some gene contributed a table for
Contributed == {k \in Range(Categories) : \E i \in DOMAIN summaries : k \in Range(summaries[i].keys)}

\* the categories of the models fitted for some gene
FittedCategories ==
    {k \in Range(Categories) :
        \E i \in DOMAIN corpus : \E j \in DOMAIN corpus[i].dirs :
            ModelCode(corpus[i].dirs[j].name) \in Range(model_types[k])}

\* C7: the merged summary set has a key for a category exactly when some gene
\* contributed a table for it (which is when some gene fitted a model of the
\* category); the files written are the model-<category>.csv of those categories,
\* and none of them is without rows.
C7_KeysAreTheContributedCategories ==
    merged # Unset =>
        /\ Range(merged.keys) = Contributed
        /\ Contributed = FittedCategories
        /\ \A f \in files :
              /\ \E k \in Contributed : f.name = <<"model-", k, ".csv">>
              /\ Len(f.table.rows) > 0
        /\ files # {} => {f.name : f \in files} = {<<"model-", k, ".csv">> : k \in Contributed}

\* two genes were merged and written, one contributing a category the other does
\* not, and some category has no contribution
C7_Witness ==
    /\ merged # Unset
    /\ files # {}
    /\ Len(summaries) = 2
    /\ Range(summaries[1].keys) # Range(summaries[2].keys)
    /\ Contributed # Range(Categories)
    /\ \E f \in files : Len(f.table.rows) = 2

\* the model codes fitted for a gene directory
FittedOf(entry) == {ModelCode(entry.dirs[j].name) : j \in DOMAIN entry.dirs}

\* the fitted models of the categories null, site and branch
RatedOf(entry) ==
    {m \in FittedOf(entry) :
        m \in Range(model_types["null"]) \cup Range(model_types["site"])
                 \cup Range(model_types["branch"])}

\* the branchRates mapping of the model m of a gene directory: the branches its out
\* file lists
BranchRatesOf(entry, m) ==
    (CHOOSE d \in Range(entry.dirs) : ModelCode(d.name) = m).out.branches

\* the rows of the branch table of the i-th gene that belong to the model m
BranchRowsOf(i, m) == SelectSeq(branches[i].rows, LAMBDA r : r.model = m)

----------------------------------------------------------------------------
(* The run of the script over a corpus *)

\* the model codes of the corpora the script is run on
RunCodes == <<"M0", "M2", "bsA", "bsA1", "bsD">>

\* the models whose rst file readCodemlOut reads
BebCodes == Range(BebModelTypes["site"]) \cup Range(BebModelTypes["branch-site"])

\* an rst file without the marker of the BEB section
NoMarkerRst(code) ==
    IF code \in Range(BebModelTypes["branch-site"])
    THEN BsRstHeadNoBeb \o <<BsRow(1, "K", 10, 0, 900, 90)>>
    ELSE SiteNebPart \o <<SiteRow(1, "K", 993, 2, 2456, 321)>>

RunDir(code, marked) ==
    [name |-> <<code, "~", "h">>, out |-> OutFile(3, -997),
     rst |-> IF marked \/ code \notin BebCodes THEN TypicalRst(code) ELSE NoMarkerRst(code)]

\* the listings of the gene directories: any MaxCorpusDirs of the codes, the rst
\* files as CodeML writes them or, where they are read, all without the marker
RunListings ==
    {LET cs == SelectSeq(RunCodes, LAMBDA c : c \in sm[1])
     IN  [i \in DOMAIN cs |-> RunDir(cs[i], sm[2])]
        : sm \in {tm \in (SUBSET Range(RunCodes)) \X BOOLEAN :
                     /\ Cardinality(tm[1]) <= MaxCorpusDirs
                     /\ ~tm[2] => tm[1] \cap BebCodes # {}}}

\* listDirs(args.input): the DirEntry of every gene directory
RunCorpora ==
    UNION {{[i \in 1..n |-> DirEntry(<<"gene", i>>, WithBranches(ls[i], GeneBranches(i)))]
               : ls \in [1..n -> RunListings]}
              : n \in 0..MaxGenes}

InitRun ==
    /\ corpus \in RunCorpora
    /\ run = [pc |-> "start", error |-> ""]
    /\ files = {}
    /\ log = {}
    /\ summaries = <<>>
    /\ branches = <<>>
    /\ merged = Unset
    /\ GeneAtRest
    /\ BebAtRest
    /\ CompareAtRest

\* the script, from parseCodeMl to its last line or to the fault that ends it
Main ==
    /\ run.pc = "start"
    /\ \E orders \in CorpusOrders(corpus) :
          \E r \in {main(corpus, orders)} :
              /\ run' = [pc |-> r.pc, error |-> r.error]
              /\ files' = files \cup r.files
              /\ log' = log \cup r.log
    /\ UNCHANGED <<corpus, summaries, branches, merged, args, geneVars, bebVars>>

NextRun == Main

SpecRun == InitRun /\ [][NextRun]_vars

\* the genes of the corpus for which no allowed pair has both models fitted
HasNoPair(entry) ==
    LET fitted == Range(getModels(entry.dirs))
    IN  \A k \in fitted \cap DOMAIN null_alt : Range(null_alt[k]) \cap fitted = {}

\* the LRT rows of a gene, read from a result set built from its directory
GeneLrt(entry) ==
    IF IsFault(EteResultsInit(entry)) THEN {}
    ELSE {getLRT(EteResultsInit(entry), o) : o \in IntersectOrders(getModels(entry.dirs))}

Written(name) == {f \in files : f.name = name}

\* C3: for a gene without an allowed pair of fitted models getLRT returns an empty
\* table, with the warning and without a fault, and the run goes on to its end,
\* the rows of every other gene being in the LRT table of the corpus.
C3_EmptyLrtAndRunContinues ==
    (run.pc # "start" /\ \E i \in DOMAIN corpus : HasNoPair(corpus[i])) =>
        /\ \A i \in DOMAIN corpus :
              HasNoPair(corpus[i]) =>
                  \A l \in GeneLrt(corpus[i]) : l.ret = EmptyFrame /\ l.warned
        /\ run.pc = "done"
        /\ \E f \in Written(<<"lrt.csv">>) :
              \A i \in DOMAIN corpus : \E l \in GeneLrt(corpus[i]) :
                  Range(l.ret.rows) \subseteq Range(f.table.rows)

\* the genes of the corpus whose fitted models are all of category branch-site or
\* clade, which have no branch-rate row
HasNoBranchRow(entry) ==
    \A j \in DOMAIN entry.dirs :
        ModelCode(entry.dirs[j].name) \in Range(model_types["branch-site"])
                                              \cup Range(model_types["clade"])

\* C8: when no gene of the corpus has a branch-rate row, the run ends without a
\* fault, branches.csv is not written and a warning is logged; and branches.csv is
\* never written without rows.
C8_NoEmptyBranchesFile ==
    /\ (run.pc # "start" /\ corpus # <<>> /\ \A i \in DOMAIN corpus : HasNoBranchRow(corpus[i])) =>
          /\ run.pc = "done"
          /\ Written(<<"branches.csv">>) = {}
          /\ log \ {"Finished"} # {}
    /\ \A f \in Written(<<"branches.csv">>) : Len(f.table.rows) > 0

\* the rst file of the sub-directory is one readCodemlOut reads, and it lacks the
\* marker of its BEB section
LacksMarker(dir) ==
    /\ ModelCode(dir.name) \in BebCodes
    /\ IF ModelCode(dir.name) \in Range(BebModelTypes["branch-site"])
       THEN \A k \in DOMAIN dir.rst : ~StartsWithBEB(dir.rst[k])
       ELSE \A k \in DOMAIN dir.rst : ~Contains(dir.rst[k], "(BEB)")

HasDamagedFile(entry) == \E j \in DOMAIN entry.dirs : LacksMarker(entry.dirs[j])

\* what the body of the loop of parseCodeMl gets for a gene when its three objects
\* are built from the DirEntry
GeneProcessing(entry) ==
    {GeneTables(EteResultsInit(entry), EteResultsInit(entry), EteResultsInit(entry), o)
        : o \in IntersectOrders(getModels(entry.dirs))}

----------------------------------------------------------------------------
(* The comparison of two LRT files: compareLRT.compareLRT *)

\* a row of an LRT file, as eteTools writes it (the column lrt, which compareLRT
\* carries along untouched, is left out)
CsvRow(file, null, alt, pval) ==
    [file |-> file, null |-> null, alt |-> alt, df |-> 2, pval |-> pval, note |-> ""]

\* pd.read_csv on the column pval: an empty field is NaN
ReadPval(cell) == IF cell.t = "float" THEN cell ELSE NanCell

\* pd.read_csv(path).drop(["df", "note"], axis=1)
ReadLrtCsv(rows) ==
    [i \in DOMAIN rows |->
        [file |-> rows[i].file, null |-> rows[i].null, alt |-> rows[i].alt,
         pval |-> ReadPval(rows[i].pval)]]

\* the M1-M2 and M7-M8 comparisons
SiteComparison(row) ==
    \/ row.null = "M1" /\ row.alt = "M2"
    \/ row.null = "M7" /\ row.alt = "M8"

\* pd.merge(pd_bs, pd_site, on="file") for one row of pd_bs: the row joined to each
\* row of pd_site of the same file
MergeRow(x, pd_site) ==
    LET same == SelectSeq(pd_site, LAMBDA y : y.file = x.file)
    IN  [j \in DOMAIN same |->
            [file |-> x.file, null_x |-> x.null, alt_x |-> x.alt, pval_x |-> x.pval,
             null_y |-> same[j].null, alt_y |-> same[j].alt, pval_y |-> same[j].pval]]

\* a <= b for two decimals that are not negative
DecLeq(a, b) == a.m * Power(10, b.e) <= b.m * Power(10, a.e)

\* column <= pval and column > pval: both are False where the column holds NaN
Leq(cell, pval) == cell.t = "float" /\ DecLeq(Dec(cell.m, cell.e), pval)

Gt(cell, pval) == cell.t = "float" /\ ~DecLeq(Dec(cell.m, cell.e), pval)

IsNanNever(cell) == FALSE

\* np.isnan
IsNan(cell) == cell.t = "nan"

\* the list conditions, for one row
conditions(row, pval) ==
    << Leq(row.pval_x, pval) /\ Gt(row.pval_y, pval),
       Leq(row.pval_x, pval) /\ Leq(row.pval_y, pval),
       Gt(row.pval_x, pval) /\ Leq(row.pval_y, pval),
       Gt(row.pval_x, pval) /\ Gt(row.pval_y, pval),
       IsNan(row.pval_x) \/ IsNan(row.pval_y) >>

values == <<"PS_fg", "PS_fg_bg", "PS_bg", "no_PS", "poor_fit">>

\* np.select(condlist, choicelist) for one row: the choice of the first condition
\* that holds, and the default 0 (in an array of strings, "0") when none does
Select(condlist, choicelist) ==
    LET hold == {i \in DOMAIN condlist : condlist[i]}
    IN  IF hold = {} THEN "0" ELSE choicelist[Min(hold)]

CompareCols ==
    <<"file", "null_x", "alt_x", "pval_x", "null_y", "alt_y", "pval_y", "signal">>

\* compareLRT: the table written to outcsv
compareLRT(bs, site, pval) ==
    LET pd_bs == ReadLrtCsv(bs)
        pd_site == SelectSeq(ReadLrtCsv(site), SiteComparison)
        pd_merged == Flatten([i \in DOMAIN pd_bs |-> MergeRow(pd_bs[i], pd_site)])
    IN  Table(CompareCols,
              [i \in DOMAIN pd_merged |->
                  [file |-> pd_merged[i].file,
                   null_x |-> pd_merged[i].null_x, alt_x |-> pd_merged[i].alt_x,
                   pval_x |-> pd_merged[i].pval_x,
                   null_y |-> pd_merged[i].null_y, alt_y |-> pd_merged[i].alt_y,
                   pval_y |-> pd_merged[i].pval_y,
                   signal |-> Select(conditions(pd_merged[i], pval), values)]])

\* the p-value fields of the files: empty, 0.05 and 0.051
CsvPvals == {BlankCell, NumCell(Dec(5, 2)), NumCell(Dec(51, 3))}

CompareGenes == {"gene1", "gene2"}

\* rows of a file of branch-site comparisons
BsCsvRows == {CsvRow(g, "bsA1", "bsA", p) : g \in CompareGenes, p \in CsvPvals}

\* rows of a file of site comparisons: M1-M2, M7-M8, and one that is filtered out
SiteCsvRows ==
    {CsvRow(g, "M1", "M2", p) : g \in CompareGenes, p \in CsvPvals}
        \cup {CsvRow(g, "M7", "M8", NumCell(Dec(51, 3))) : g \in CompareGenes}
        \cup {CsvRow(g, "M0", "M1", NumCell(Dec(5, 2))) : g \in CompareGenes}

\* the threshold: the default 0.05, or 0.051
Thresholds == {Dec(5, 2), Dec(51, 3)}

CompareArgs ==
    {[bs |-> b, site |-> s, pval |-> t, outcsv |-> <<"out.csv">>] :
        b \in UNION {[1..n -> BsCsvRows] : n \in 0..MaxBsRows},
        s \in UNION {[1..n -> SiteCsvRows] : n \in 0..MaxSiteRows},
        t \in Thresholds}

InitCompare ==
    /\ args \in CompareArgs
    /\ files = {}
    /\ log = {}
    /\ GeneAtRest
    /\ BebAtRest
    /\ CorpusAtRest

CompareLRT ==
    /\ args # Unset
    /\ files = {}
    /\ files' = {File(args.outcsv, compareLRT(args.bs, args.site, args.pval))}
    /\ UNCHANGED <<args, corpus, summaries, branches, merged, run, log, geneVars, bebVars>>

NextCompare == CompareLRT

SpecCompare == InitCompare /\ [][NextCompare]_vars

\* a p-value in units of 0.001
Thousandths(cell) == cell.m * Power(10, 3 - cell.e)

\* the label the rule gives for two p-values read from the files and a threshold
LabelOf(x, y, t) ==
    IF x.t # "float" \/ y.t # "float" THEN "poor_fit"
    ELSE LET px == Thousandths(x)
             py == Thousandths(y)
             pt == Thousandths(t)
         IN  IF px <= pt /\ py > pt THEN "PS_fg"
             ELSE IF px <= pt /\ py <= pt THEN "PS_fg_bg"
             ELSE IF px > pt /\ py <= pt THEN "PS_bg"
             ELSE "no_PS"

\* the rows of the two files that are joined: same gene, and an M1-M2 or M7-M8
\* comparison on the site side
JoinedPairs ==
    {<<i, j>> \in (DOMAIN args.bs) \X (DOMAIN args.site) :
        /\ args.bs[i].file = args.site[j].file
        /\ <<args.site[j].null, args.site[j].alt>> \in {<<"M1", "M2">>, <<"M7", "M8">>}}

\* C13: every joined row of the table compareLRT writes carries one label of
\* PS_fg, PS_fg_bg, PS_bg, no_PS, poor_fit: poor_fit when either p-value is
\* undefined, and otherwise the one the two comparisons with the threshold give;
\* and the table has one row for each joined pair of rows of the two files.
C13_OneLabelPerRow ==
    \A f \in files :
        /\ Len(f.table.rows) = Cardinality(JoinedPairs)
        /\ \A i \in DOMAIN f.table.rows :
              LET r == f.table.rows[i]
              IN  /\ r.signal \in Range(values)
                  /\ r.signal = LabelOf(r.pval_x, r.pval_y, args.pval)
                  /\ \E p \in JoinedPairs :
                        /\ r.file = args.bs[p[1]].file
                        /\ r.pval_x = ReadPval(args.bs[p[1]].pval)
                        /\ r.pval_y = ReadPval(args.site[p[2]].pval)

\* a table was written that holds a row whose site p-value is undefined while its
\* branch-site p-value is at the threshold, and a row with a branch-site p-value
\* equal to the threshold and a site p-value above it
C13_Witness ==
    \E f \in files :
        /\ \E i \in DOMAIN f.table.rows :
              /\ f.table.rows[i].signal = "poor_fit"
              /\ f.table.rows[i].pval_x = NumCell(args.pval)
              /\ f.table.rows[i].pval_y.t = "nan"
        /\ \E i \in DOMAIN f.table.rows :
              /\ f.table.rows[i].signal = "PS_fg"
              /\ f.table.rows[i].pval_x = NumCell(args.pval)

====
